---------------------------- MODULE Spec2Model ----------------------------
(***************************************************************************)
(* Model of the LLM-access resilience layer of healthcare-aigent:          *)
(*   - CircuitBreaker   (src/src/llm/circuit_breaker.py)                   *)
(*   - RetryStrategy    (src/src/llm/fallback.py)                          *)
(*   - FallbackLLM      (src/src/llm/fallback.py)                          *)
(*   - LLMFactory       (src/src/llm/llm_factory.py)                       *)
(*                                                                         *)
(* Time is counted in whole seconds (time.time() is the variable now).     *)
(* Delays of the retry loop are whole seconds as well.                     *)
(* Temperatures are counted in tenths (0.7 is 7).                          *)
(***************************************************************************)
EXTENDS Integers, Sequences, FiniteSets, TLC

VARIABLES
    now,        \* time.time()
    cb,         \* the CircuitBreaker object (its fields, config included)
    last,       \* the breaker operation that ran last, with what it returned
    openedAt,   \* history: when the breaker last entered OPEN (NoTime: never, or reset since)
    avail,      \* history: the newest is_available() call since the last reset() (<<>>: none)
    rs,         \* the RetryStrategy object
    rt,         \* one run of execute_with_retry: its locals and what the caller observes
    fl,         \* the FallbackLLM object: its two adapters and _last_successful_llm
    fc,         \* the FallbackLLM operation that ran last, or is running: what the caller observes
    lastOk,     \* history: the adapter whose call returned successfully most recently
    fa,         \* the LLMFactory call that ran last: its arguments and what the caller observes
    th          \* two concurrent callers of is_available(): where each is, and their history

vars == <<now, cb, last, openedAt, avail, rs, rt, fl, fc, lastOk, fa, th>>

(***************************************************************************)
(* Bounds of the model                                                     *)
(***************************************************************************)
MaxTime == 6        \* the clock stops here
MaxCheckDur == 1    \* longest time one check_function() call takes
MaxFailures == 2    \* cap of the _failures counter
MaxSuccess == 2     \* cap of the success_count counter

(***************************************************************************)
(* circuit_breaker.py: module constants                                    *)
(***************************************************************************)
RESET_TIMEOUT == 5
CACHE_TIMEOUT == 5
NoTime == -1        \* _last_failure_time = None

\* CircuitBreakerConfig instances the breaker is constructed with
FailureThresholds == {1, 2}
ResetTimeouts == {2, 6}
HalfOpenTimeouts == {0, 2}
SuccessThresholds == {1, 2}

Configs ==
    [failure_threshold : FailureThresholds,
     reset_timeout     : ResetTimeouts,
     half_open_timeout : HalfOpenTimeouts,
     success_threshold : SuccessThresholds]

\* what one call of check_function() does
Outcomes == {"true", "false", "raise"}

\* CircuitBreaker.__init__
NewBreaker(config) ==
    [config            |-> config,
     failures          |-> 0,
     last_failure_time |-> NoTime,
     state             |-> "closed",
     success_count     |-> 0,
     last_success_time |-> 0,
     cache             |-> <<>>]

\* record_failure with > for >= in the threshold test of line 119
RecordFailure_StrictThreshold(b, t) ==
    LET b1 == [b EXCEPT !.failures = @ + 1,
                        !.last_failure_time = t,
                        !.success_count = 0]
    IN  IF b1.state = "closed" /\ b1.failures > b1.config.failure_threshold
        THEN [b1 EXCEPT !.state = "open"]
        ELSE IF b1.state = "half_open"
             THEN [b1 EXCEPT !.state = "open"]
             ELSE b1

\* record_failure with the threshold test applied to HALF_OPEN as well
RecordFailure_HalfOpenCounts(b, t) ==
    LET b1 == [b EXCEPT !.failures = @ + 1,
                        !.last_failure_time = t,
                        !.success_count = 0]
    IN  IF b1.state \in {"closed", "half_open"}
           /\ b1.failures >= b1.config.failure_threshold
        THEN [b1 EXCEPT !.state = "open"]
        ELSE b1

\* CircuitBreaker.record_failure, called at time t
RecordFailure(b, t) ==
    LET b1 == [b EXCEPT !.failures = @ + 1,
                        !.last_failure_time = t,
                        !.success_count = 0]
    IN  IF b1.state = "closed" /\ b1.failures >= b1.config.failure_threshold
        THEN [b1 EXCEPT !.state = "open"]
        ELSE IF b1.state = "half_open"
             THEN [b1 EXCEPT !.state = "open"]
             ELSE b1

\* record_success closing the circuit from OPEN as well
RecordSuccess_ClosesAnyState(b, t) ==
    LET b1 == [b EXCEPT !.last_success_time = t,
                        !.success_count = @ + 1,
                        !.failures = 0]
    IN  IF b1.state # "closed" /\ b1.success_count >= b1.config.success_threshold
        THEN [b1 EXCEPT !.state = "closed", !.success_count = 0]
        ELSE b1

\* record_success without the transition of lines 132-136
RecordSuccess_NeverCloses(b, t) ==
    [b EXCEPT !.last_success_time = t,
              !.success_count = @ + 1,
              !.failures = 0]

\* CircuitBreaker.record_success, called at time t
RecordSuccess(b, t) ==
    LET b1 == [b EXCEPT !.last_success_time = t,
                        !.success_count = @ + 1,
                        !.failures = 0]
    IN  IF b1.state = "half_open" /\ b1.success_count >= b1.config.success_threshold
        THEN [b1 EXCEPT !.state = "closed", !.success_count = 0]
        ELSE b1

\* reset without line 141
Reset_KeepsFailures(b) ==
    [b EXCEPT !.state = "closed", !.success_count = 0, !.cache = <<>>]

\* CircuitBreaker.reset
Reset(b) ==
    [b EXCEPT !.state = "closed", !.failures = 0, !.success_count = 0, !.cache = <<>>]

\* CircuitBreaker.is_open, called at time t
IsOpen(b, t) ==
    IF b.state = "open"
    THEN IF b.last_failure_time # NoTime /\ t - b.last_failure_time >= RESET_TIMEOUT
         THEN [cb |-> [b EXCEPT !.state = "half_open"], ret |-> FALSE]
         ELSE [cb |-> b, ret |-> TRUE]
    ELSE [cb |-> b, ret |-> FALSE]

\* is_available, lines 76-79: a cache entry younger than the TTL answers the call
CacheFresh(b, t) ==
    b.cache # <<>> /\ t - b.cache[2] < CACHE_TIMEOUT

\* lines 82-89 without the assignment of line 89
OpenGate_KeepsMarker(b, t) ==
    IF b.state = "open"
    THEN IF b.last_failure_time # NoTime
            /\ t - b.last_failure_time < b.config.reset_timeout
         THEN [cb |-> b, blocked |-> TRUE]
         ELSE [cb |-> [b EXCEPT !.state = "half_open"], blocked |-> FALSE]
    ELSE [cb |-> b, blocked |-> FALSE]

\* lines 82-89 with a blocked call restarting the open period
OpenGate_BlockExtends(b, t) ==
    IF b.state = "open"
    THEN IF b.last_failure_time # NoTime
            /\ t - b.last_failure_time < b.config.reset_timeout
         THEN [cb |-> [b EXCEPT !.last_failure_time = t], blocked |-> TRUE]
         ELSE [cb |-> [b EXCEPT !.state = "half_open", !.last_failure_time = t],
               blocked |-> FALSE]
    ELSE [cb |-> b, blocked |-> FALSE]

\* is_available, lines 82-89: OPEN blocks until reset_timeout has passed, then HALF_OPEN
OpenGate(b, t) ==
    IF b.state = "open"
    THEN IF b.last_failure_time # NoTime
            /\ t - b.last_failure_time < b.config.reset_timeout
         THEN [cb |-> b, blocked |-> TRUE]
         ELSE [cb |-> [b EXCEPT !.state = "half_open", !.last_failure_time = t],
               blocked |-> FALSE]
    ELSE [cb |-> b, blocked |-> FALSE]

\* lines 92-95 never blocking
HalfOpenGate_Skipped(b, t) == FALSE

\* is_available, lines 92-95: HALF_OPEN blocks until half_open_timeout has passed
HalfOpenGate(b, t) ==
    /\ b.state = "half_open"
    /\ b.last_failure_time # NoTime
    /\ t - b.last_failure_time < b.config.half_open_timeout

\* lines 98-111 without the except clause: the exception leaves is_available
Probe_Propagates(b, t, outcome, t2) ==
    CASE outcome = "true" ->
            [cb |-> RecordSuccess([b EXCEPT !.cache = <<TRUE, t>>], t2),
             ret |-> TRUE, raised |-> FALSE]
      [] outcome = "false" ->
            [cb |-> RecordFailure([b EXCEPT !.cache = <<FALSE, t>>], t2),
             ret |-> FALSE, raised |-> FALSE]
      [] outcome = "raise" ->
            [cb |-> b, ret |-> FALSE, raised |-> TRUE]

\* is_available, lines 98-111: the check itself. t is current_time of the call,
\* t2 the time.time() read by record_success / record_failure after the check.
Probe(b, t, outcome, t2) ==
    CASE outcome = "true" ->
            [cb |-> RecordSuccess([b EXCEPT !.cache = <<TRUE, t>>], t2),
             ret |-> TRUE, raised |-> FALSE]
      [] outcome = "false" ->
            [cb |-> RecordFailure([b EXCEPT !.cache = <<FALSE, t>>], t2),
             ret |-> FALSE, raised |-> FALSE]
      [] outcome = "raise" ->
            [cb |-> RecordFailure(b, t2), ret |-> FALSE, raised |-> FALSE]

\* CircuitBreaker.is_available, called at time t. mid is the breaker as the
\* check function finds it (after the cache and the two gates).
IsAvailable(b, t, outcome, t2) ==
    IF CacheFresh(b, t)
    THEN [cb |-> b, ret |-> b.cache[1], checked |-> FALSE, raised |-> FALSE, mid |-> b]
    ELSE LET g == OpenGate(b, t)
         IN  IF g.blocked
             THEN [cb |-> g.cb, ret |-> FALSE, checked |-> FALSE, raised |-> FALSE,
                   mid |-> g.cb]
             ELSE IF HalfOpenGate(g.cb, t)
                  THEN [cb |-> g.cb, ret |-> FALSE, checked |-> FALSE,
                        raised |-> FALSE, mid |-> g.cb]
                  ELSE LET p == Probe(g.cb, t, outcome, t2)
                       IN  [cb |-> p.cb, ret |-> p.ret, checked |-> TRUE,
                            raised |-> p.raised, mid |-> g.cb]

(***************************************************************************)
(* The breaker's operations as actions. h says whether the step records    *)
(* the history variables openedAt and avail (SpecHist) or not (Spec).      *)
(***************************************************************************)
NoOp == [op |-> "init", t |-> 0, ret |-> FALSE, checked |-> FALSE, raised |-> FALSE,
         outcome |-> "none", mid_state |-> "closed", mid_lft |-> NoTime]

InCaps(b) == b.failures <= MaxFailures /\ b.success_count <= MaxSuccess

Tick ==
    /\ now < MaxTime
    /\ now' = now + 1
    /\ last' = [NoOp EXCEPT !.op = "tick"]
    /\ UNCHANGED <<cb, openedAt, avail, rs, rt, fl, fc, lastOk, fa, th>>

\* a timestamp one second further in the past
Shift(ts) == IF ts = NoTime THEN NoTime ELSE IF ts > 0 THEN ts - 1 ELSE 0

\* time.time() moves on without end. Up to MaxTime the clock is counted; from
\* there on the timestamps the breaker holds move back instead, which keeps
\* every difference now - timestamp the code computes, except that a
\* difference of MaxTime or more stays at MaxTime (no timeout is longer).
TickOn ==
    /\ IF now < MaxTime
       THEN /\ now' = now + 1
            /\ cb' = cb
       ELSE /\ now' = now
            /\ cb' = [cb EXCEPT !.last_failure_time = Shift(@),
                                !.last_success_time = Shift(@),
                                !.cache = IF @ = <<>> THEN @
                                          ELSE <<@[1], Shift(@[2])>>]
    /\ last' = [NoOp EXCEPT !.op = "tick"]
    /\ UNCHANGED <<openedAt, avail, rs, rt, fl, fc, lastOk, fa, th>>

IsAvailableAct(h) ==
    \E outcome \in Outcomes, d \in 0..MaxCheckDur :
        LET r == IsAvailable(cb, now, outcome, now + d)
        IN  /\ now + d <= MaxTime
            /\ r.checked \/ (outcome = "true" /\ d = 0)
            /\ InCaps(r.cb)
            /\ cb' = r.cb
            /\ now' = IF r.checked THEN now + d ELSE now
            /\ last' = [op |-> "is_available", t |-> now, ret |-> r.ret,
                        checked |-> r.checked, raised |-> r.raised,
                        outcome |-> IF r.checked THEN outcome ELSE "none",
                        mid_state |-> r.mid.state,
                        mid_lft |-> r.mid.last_failure_time]
            /\ openedAt' = IF h /\ r.checked /\ r.mid.state # "open" /\ r.cb.state = "open"
                           THEN r.cb.last_failure_time ELSE openedAt
            /\ avail' = IF h THEN <<now, r.ret, r.checked>> ELSE avail
            /\ UNCHANGED <<rs, rt, fl, fc, lastOk, fa, th>>

\* the counters, counted up to their caps only: a counter at its cap compares
\* with every threshold as a larger one does (no threshold is above the cap)
Saturated(b) ==
    [b EXCEPT !.failures = IF @ > MaxFailures THEN MaxFailures ELSE @,
              !.success_count = IF @ > MaxSuccess THEN MaxSuccess ELSE @]

\* is_available() on a breaker in use for ever: as IsAvailableAct, with the
\* counters saturating at their caps instead of stopping the call
IsAvailableOn ==
    \E outcome \in Outcomes, d \in 0..MaxCheckDur :
        LET r == IsAvailable(cb, now, outcome, now + d)
        IN  /\ now + d <= MaxTime
            /\ r.checked \/ (outcome = "true" /\ d = 0)
            /\ cb' = Saturated(r.cb)
            /\ now' = IF r.checked THEN now + d ELSE now
            /\ last' = [op |-> "is_available", t |-> now, ret |-> r.ret,
                        checked |-> r.checked, raised |-> r.raised,
                        outcome |-> IF r.checked THEN outcome ELSE "none",
                        mid_state |-> r.mid.state,
                        mid_lft |-> r.mid.last_failure_time]
            /\ UNCHANGED <<openedAt, avail, rs, rt, fl, fc, lastOk, fa, th>>

RecordFailureAct(h) ==
    LET b == RecordFailure(cb, now)
    IN  /\ InCaps(b)
        /\ cb' = b
        /\ last' = [NoOp EXCEPT !.op = "record_failure", !.t = now,
                                !.mid_state = cb.state, !.mid_lft = cb.last_failure_time]
        /\ openedAt' = IF h /\ cb.state # "open" /\ b.state = "open" THEN now ELSE openedAt
        /\ UNCHANGED <<now, avail, rs, rt, fl, fc, lastOk, fa, th>>

RecordSuccessAct ==
    LET b == RecordSuccess(cb, now)
    IN  /\ InCaps(b)
        /\ cb' = b
        /\ last' = [NoOp EXCEPT !.op = "record_success", !.t = now,
                                !.mid_state = cb.state, !.mid_lft = cb.last_failure_time]
        /\ UNCHANGED <<now, openedAt, avail, rs, rt, fl, fc, lastOk, fa, th>>

ResetAct ==
    /\ cb' = Reset(cb)
    /\ last' = [NoOp EXCEPT !.op = "reset", !.t = now,
                            !.mid_state = cb.state, !.mid_lft = cb.last_failure_time]
    /\ openedAt' = NoTime
    /\ avail' = <<>>
    /\ UNCHANGED <<now, rs, rt, fl, fc, lastOk, fa, th>>

IsOpenAct ==
    LET r == IsOpen(cb, now)
    IN  /\ cb' = r.cb
        /\ last' = [NoOp EXCEPT !.op = "is_open", !.t = now, !.ret = r.ret,
                                !.mid_state = cb.state, !.mid_lft = cb.last_failure_time]
        /\ UNCHANGED <<now, openedAt, avail, rs, rt, fl, fc, lastOk, fa, th>>

(***************************************************************************)
(* Two unsynchronised callers of is_available() on one breaker. A caller   *)
(* can lose the processor between any two steps; the model lets the other  *)
(* caller in where it matters: while check_function() runs (line 99), and  *)
(* between the load and the store of self._failures += 1 (line 115).       *)
(***************************************************************************)
Callers == {1, 2}

\* pc: where each caller is ("idle": not in a call; "check": in
\* check_function(); "record": in record_failure(), _failures loaded);
\* t: its current_time; out: what its check did; loaded: the _failures it
\* loaded. History of the round (from a caller entering while the other is
\* idle until both are idle again): base and from: _failures and _state when
\* it began; stale: it began with an expired cache entry; checks, failed,
\* succeeded: the check function's executions, the failures and the
\* successes recorded in it.
IdleCallers ==
    [pc |-> <<"idle", "idle">>, t |-> <<0, 0>>, out |-> <<"none", "none">>,
     loaded |-> <<0, 0>>, base |-> 0, from |-> "closed", stale |-> FALSE,
     checks |-> 0, failed |-> 0, succeeded |-> 0]

Other(i) == 3 - i

\* lines 115-124 with > for >= in the threshold test
StoreFailure_StrictThreshold(b, n, t) ==
    LET b1 == [b EXCEPT !.failures = n + 1,
                        !.last_failure_time = t,
                        !.success_count = 0]
    IN  IF b1.state = "closed" /\ b1.failures > b1.config.failure_threshold
        THEN [b1 EXCEPT !.state = "open"]
        ELSE IF b1.state = "half_open"
             THEN [b1 EXCEPT !.state = "open"]
             ELSE b1

\* lines 115-124: record_failure from the store of line 115 on, n being the
\* value of _failures the caller loaded
StoreFailure(b, n, t) ==
    LET b1 == [b EXCEPT !.failures = n + 1,
                        !.last_failure_time = t,
                        !.success_count = 0]
    IN  IF b1.state = "closed" /\ b1.failures >= b1.config.failure_threshold
        THEN [b1 EXCEPT !.state = "open"]
        ELSE IF b1.state = "half_open"
             THEN [b1 EXCEPT !.state = "open"]
             ELSE b1

\* lines 75-95: caller i reads the clock and goes through the cache and the
\* two gates; it returns there, or goes on to the check function
RaceEnter(i) ==
    /\ th.pc[i] = "idle"
    /\ LET cached == CacheFresh(cb, now)
           g == OpenGate(cb, now)
           passes == ~cached /\ ~g.blocked /\ ~HalfOpenGate(g.cb, now)
           begins == th.pc[Other(i)] = "idle"
           h == IF begins
                THEN [th EXCEPT !.base = cb.failures, !.from = cb.state,
                                !.stale = (cb.cache # <<>>),
                                !.checks = 0, !.failed = 0, !.succeeded = 0,
                                !.out = <<"none", "none">>]
                ELSE th
       IN  /\ cb' = IF cached THEN cb ELSE g.cb
           /\ th' = IF passes
                     THEN [h EXCEPT !.pc[i] = "check", !.t[i] = now,
                                    !.out[i] = "none", !.checks = @ + 1]
                     ELSE h
    /\ UNCHANGED <<now, last, openedAt, avail, rs, rt, fl, fc, lastOk, fa>>

\* lines 99-110: the check function of caller i returns or raises; a success
\* is recorded at once, a failure gets as far as the load of _failures
RaceCheck(i) ==
    /\ th.pc[i] = "check"
    /\ \E outcome \in Outcomes :
        /\ cb' = CASE outcome = "true" ->
                        RecordSuccess([cb EXCEPT !.cache = <<TRUE, th.t[i]>>], now)
                  [] outcome = "false" -> [cb EXCEPT !.cache = <<FALSE, th.t[i]>>]
                  [] outcome = "raise" -> cb
        /\ InCaps(cb')
        /\ th' = IF outcome = "true"
                  THEN [th EXCEPT !.pc[i] = "idle", !.out[i] = outcome,
                                  !.succeeded = @ + 1]
                  ELSE [th EXCEPT !.pc[i] = "record", !.out[i] = outcome,
                                  !.loaded[i] = cb.failures]
    /\ UNCHANGED <<now, last, openedAt, avail, rs, rt, fl, fc, lastOk, fa>>

\* lines 115-124: caller i stores _failures and finishes record_failure
RaceRecord(i) ==
    /\ th.pc[i] = "record"
    /\ cb' = StoreFailure(cb, th.loaded[i], now)
    /\ InCaps(cb')
    /\ th' = [th EXCEPT !.pc[i] = "idle", !.failed = @ + 1]
    /\ UNCHANGED <<now, last, openedAt, avail, rs, rt, fl, fc, lastOk, fa>>

(***************************************************************************)
(* fallback.py: RetryStrategy.execute_with_retry                           *)
(***************************************************************************)
MaxRetries == 3     \* largest max_retries a strategy is constructed with

RetryCounts == -1..MaxRetries
InitialDelays == {1, 3, 5}
MaxDelays == {2, 4}
BackoffFactors == {1, 2, 3}

Strategies ==
    [max_retries    : RetryCounts,
     initial_delay  : InitialDelays,
     max_delay      : MaxDelays,
     backoff_factor : BackoffFactors]

\* what the operation returns, or the exception it raises
Values == {"a", "b"}

\* RetryStrategy.__init__ with its default arguments
DefaultStrategy ==
    [max_retries |-> 3, initial_delay |-> 1, max_delay |-> 10, backoff_factor |-> 2]

\* CircuitBreakerConfig with its default fields
DefaultConfig ==
    [failure_threshold |-> 3, reset_timeout |-> 60, half_open_timeout |-> 5,
     success_threshold |-> 1]

Min(a, b) == IF a <= b THEN a ELSE b

\* line 111: the delay of the next sleep
NextDelay(delay, s) == Min(delay * s.backoff_factor, s.max_delay)

\* line 106 with the loop one attempt short
Retrying_OffByOne(attempt, s) == attempt + 1 < s.max_retries

\* line 106: a failed attempt is followed by another one
Retrying(attempt, s) == attempt < s.max_retries

\* a run that has not started: the caller has not called execute_with_retry yet
IdleRun ==
    [pc |-> "idle", attempt |-> 0, delay |-> 0, last_exception |-> "None",
     calls |-> <<>>, sleeps |-> <<>>, result |-> "None", exc |-> "None"]

\* lines 98-101: the locals, and a loop over range(max_retries + 1); an empty
\* range falls through the loop and the function returns None
RetryStart ==
    /\ rt.pc = "idle"
    /\ rt' = IF rs.max_retries + 1 <= 0
             THEN [rt EXCEPT !.pc = "returned", !.delay = rs.initial_delay]
             ELSE [rt EXCEPT !.pc = "call", !.delay = rs.initial_delay]
    /\ UNCHANGED <<now, cb, last, openedAt, avail, rs, fl, fc, lastOk, fa, th>>

\* lines 102-103: the operation returns v, and so does execute_with_retry
RetryCallOk ==
    /\ rt.pc = "call"
    /\ \E v \in Values :
        rt' = [rt EXCEPT !.calls = Append(@, [ok |-> TRUE, val |-> v]),
                         !.pc = "returned",
                         !.result = v]
    /\ UNCHANGED <<now, cb, last, openedAt, avail, rs, fl, fc, lastOk, fa, th>>

\* lines 104-114: the operation raises e; sleep and go on, or raise
RetryCallErr ==
    /\ rt.pc = "call"
    /\ \E e \in Values :
        LET r1 == [rt EXCEPT !.calls = Append(@, [ok |-> FALSE, val |-> e]),
                             !.last_exception = e]
        IN  rt' = IF Retrying(r1.attempt, rs)
                  THEN [r1 EXCEPT !.sleeps = Append(@, r1.delay),
                                  !.delay = NextDelay(r1.delay, rs),
                                  !.attempt = @ + 1]
                  ELSE [r1 EXCEPT !.pc = "raised", !.exc = r1.last_exception]
    /\ UNCHANGED <<now, cb, last, openedAt, avail, rs, fl, fc, lastOk, fa, th>>

(***************************************************************************)
(* fallback.py: FallbackLLM                                                *)
(***************************************************************************)
MaxInvokes == 2     \* invoke() calls made on one FallbackLLM
MaxFbRetries == 2   \* largest max_retries of a FallbackLLM's retry strategy

\* what the primary adapter's _call returns or raises, and the secondary's
PrimaryValues == {"primary:a", "primary:b"}
FallbackValues == {"fallback:a", "fallback:b"}

\* line 167: the exception of try_fallback_llm without a fallback adapter
NoFallbackError == "ValueError: No fallback LLM available"

\* temperatures the adapters are built with and the setter is called with
Temperatures == {3, 7}

\* an adapter (a BaseLLM): what its properties read
Adapter(p, m, t) == [provider |-> p, model_name |-> m, temperature |-> t]

\* fallback_llm = None
NoAdapter == [provider |-> "None", model_name |-> "None", temperature |-> 0]

PrimaryAdapters == {Adapter("openai", "gpt-4", t) : t \in Temperatures}
FallbackAdapters == {NoAdapter} \cup {Adapter("ollama", "llama3", t) : t \in Temperatures}

\* the strategies a FallbackLLM is built with: max_retries >= 0, the default delays
FbStrategies == {[DefaultStrategy EXCEPT !.max_retries = n] : n \in 0..MaxFbRetries}

\* lines 124-140: FallbackLLM.__init__ (the strategy is the variable rs)
NewFallbackLLM(primary_llm, fallback_llm) ==
    [primary |-> primary_llm,
     fallback |-> fallback_llm,
     last_successful_llm |-> "primary"]

\* lines 98-101 of execute_with_retry, as RetryStart
RunStart(s) ==
    IF s.max_retries + 1 <= 0
    THEN [IdleRun EXCEPT !.pc = "returned", !.delay = s.initial_delay]
    ELSE [IdleRun EXCEPT !.pc = "call", !.delay = s.initial_delay]

\* lines 102-103 with the operation's value dropped
RunReturn_DropsResult(r, v) ==
    [r EXCEPT !.calls = Append(@, [ok |-> TRUE, val |-> v]),
              !.pc = "returned"]

\* lines 102-103, as RetryCallOk
RunReturn(r, v) ==
    [r EXCEPT !.calls = Append(@, [ok |-> TRUE, val |-> v]),
              !.pc = "returned",
              !.result = v]

\* lines 104-114 raising the exception of the first attempt
RunRaise_FirstException(r, s, e) ==
    LET r1 == [r EXCEPT !.calls = Append(@, [ok |-> FALSE, val |-> e]),
                        !.last_exception = e]
    IN  IF Retrying(r1.attempt, s)
        THEN [r1 EXCEPT !.sleeps = Append(@, r1.delay),
                        !.delay = NextDelay(r1.delay, s),
                        !.attempt = @ + 1]
        ELSE [r1 EXCEPT !.pc = "raised", !.exc = r1.calls[1].val]

\* lines 104-114 retrying without the sleep of line 110
RunRaise_NoSleep(r, s, e) ==
    LET r1 == [r EXCEPT !.calls = Append(@, [ok |-> FALSE, val |-> e]),
                        !.last_exception = e]
    IN  IF Retrying(r1.attempt, s)
        THEN [r1 EXCEPT !.delay = NextDelay(r1.delay, s),
                        !.attempt = @ + 1]
        ELSE [r1 EXCEPT !.pc = "raised", !.exc = r1.last_exception]

\* lines 104-114, as RetryCallErr
RunRaise(r, s, e) ==
    LET r1 == [r EXCEPT !.calls = Append(@, [ok |-> FALSE, val |-> e]),
                        !.last_exception = e]
    IN  IF Retrying(r1.attempt, s)
        THEN [r1 EXCEPT !.sleeps = Append(@, r1.delay),
                        !.delay = NextDelay(r1.delay, s),
                        !.attempt = @ + 1]
        ELSE [r1 EXCEPT !.pc = "raised", !.exc = r1.last_exception]

\* lines 164-167 with the missing adapter called all the same
TryFallbackErrors_CallsNone(f) ==
    IF f.fallback # NoAdapter THEN FallbackValues
    ELSE {"AttributeError: 'NoneType' object has no attribute '_call'"}

\* lines 164-167: what try_fallback_llm can raise: the fallback adapter's
\* exceptions, or the ValueError when there is no fallback adapter to call
TryFallbackErrors(f) ==
    IF f.fallback # NoAdapter THEN FallbackValues ELSE {NoFallbackError}

\* line 178 with the primary recorded instead of the fallback
AfterFallback_RecordsPrimary(f) == "primary"

\* line 178: _last_successful_llm = self._fallback_llm
AfterFallback(f) == IF f.fallback = NoAdapter THEN "None" ELSE "fallback"

\* lines 203-212 without the guard of line 211
SetTemperature_Unguarded(f, value) ==
    IF f.fallback = NoAdapter
    THEN [fl |-> [f EXCEPT !.primary.temperature = value], raised |-> TRUE]
    ELSE [fl |-> [f EXCEPT !.primary.temperature = value,
                           !.fallback.temperature = value],
          raised |-> FALSE]

\* lines 203-212: the temperature setter
SetTemperature(f, value) ==
    IF f.fallback # NoAdapter
    THEN [fl |-> [f EXCEPT !.primary.temperature = value,
                           !.fallback.temperature = value],
          raised |-> FALSE]
    ELSE [fl |-> [f EXCEPT !.primary.temperature = value], raised |-> FALSE]

\* lines 194-201: the temperature getter
Temperature(f) == f.primary.temperature

\* lines 223-230 reporting the adapter that answered last
Provider_LastSuccessful(f) ==
    IF f.last_successful_llm = "fallback" THEN f.fallback.provider
    ELSE f.primary.provider

\* lines 223-230: the provider getter
Provider(f) == f.primary.provider

\* lines 214-221: the model_name getter
ModelName(f) == f.primary.model_name

\* no FallbackLLM operation has run yet; log, slept, invokes and before are
\* history: the adapter calls and the sleeps of the running invoke, the invokes
\* made so far, and _last_successful_llm as the running invoke found it
IdleCall ==
    [op |-> "none", pc |-> "idle", arg |-> 0, log |-> <<>>, slept |-> 0,
     result |-> "None", exc |-> "None", invokes |-> 0, before |-> "None"]

\* no operation is running on the FallbackLLM
FbQuiet == fc.pc \in {"idle", "returned", "raised"}

\* lines 142-169: invoke() reaches _call, which runs the retry loop on the primary
FbInvoke ==
    /\ FbQuiet
    /\ fc.invokes < MaxInvokes
    /\ fc' = [IdleCall EXCEPT !.op = "invoke", !.pc = "primary",
                              !.invokes = fc.invokes + 1,
                              !.before = fl.last_successful_llm]
    /\ rt' = RunStart(rs)
    /\ UNCHANGED <<now, cb, last, openedAt, avail, rs, fl, lastOk, fa, th>>

\* lines 161-162: try_primary_llm, the primary adapter returns v
FbPrimaryOk ==
    /\ fc.pc = "primary"
    /\ rt.pc = "call"
    /\ \E v \in PrimaryValues :
        /\ rt' = RunReturn(rt, v)
        /\ fc' = [fc EXCEPT !.log = Append(@, [llm |-> "primary", ok |-> TRUE, val |-> v])]
    /\ lastOk' = "primary"
    /\ UNCHANGED <<now, cb, last, openedAt, avail, rs, fl, fa, th>>

\* lines 161-162: try_primary_llm, the primary adapter raises e
FbPrimaryErr ==
    /\ fc.pc = "primary"
    /\ rt.pc = "call"
    /\ \E e \in PrimaryValues :
        LET r == RunRaise(rt, rs, e)
        IN  /\ rt' = r
            /\ fc' = [fc EXCEPT !.log = Append(@, [llm |-> "primary", ok |-> FALSE, val |-> e]),
                                !.slept = @ + Len(r.sleeps) - Len(rt.sleeps)]
    /\ UNCHANGED <<now, cb, last, openedAt, avail, rs, fl, lastOk, fa, th>>

\* lines 170-173: the primary's retry loop returned
FbPrimaryReturned ==
    /\ fc.pc = "primary"
    /\ rt.pc = "returned"
    /\ fl' = [fl EXCEPT !.last_successful_llm = "primary"]
    /\ fc' = [fc EXCEPT !.pc = "returned", !.result = rt.result]
    /\ rt' = IdleRun
    /\ UNCHANGED <<now, cb, last, openedAt, avail, rs, lastOk, fa, th>>

\* lines 174-177: the primary's retry loop raised; the same loop on the fallback
FbPrimaryRaised ==
    /\ fc.pc = "primary"
    /\ rt.pc = "raised"
    /\ fc' = [fc EXCEPT !.pc = "fallback"]
    /\ rt' = RunStart(rs)
    /\ UNCHANGED <<now, cb, last, openedAt, avail, rs, fl, lastOk, fa, th>>

\* lines 164-166: try_fallback_llm, the fallback adapter returns v
FbFallbackOk ==
    /\ fc.pc = "fallback"
    /\ rt.pc = "call"
    /\ fl.fallback # NoAdapter
    /\ \E v \in FallbackValues :
        /\ rt' = RunReturn(rt, v)
        /\ fc' = [fc EXCEPT !.log = Append(@, [llm |-> "fallback", ok |-> TRUE, val |-> v])]
    /\ lastOk' = "fallback"
    /\ UNCHANGED <<now, cb, last, openedAt, avail, rs, fl, fa, th>>

\* lines 164-167: try_fallback_llm raises: the fallback adapter's exception, or
\* the ValueError of line 167 when there is no fallback adapter to call
FbFallbackErr ==
    /\ fc.pc = "fallback"
    /\ rt.pc = "call"
    /\ \E e \in TryFallbackErrors(fl) :
        LET r == RunRaise(rt, rs, e)
        IN  /\ rt' = r
            /\ fc' = [fc EXCEPT !.log = IF fl.fallback # NoAdapter
                                        THEN Append(@, [llm |-> "fallback", ok |-> FALSE, val |-> e])
                                        ELSE @,
                                !.slept = @ + Len(r.sleeps) - Len(rt.sleeps)]
    /\ UNCHANGED <<now, cb, last, openedAt, avail, rs, fl, lastOk, fa, th>>

\* lines 177-179: the fallback's retry loop returned
FbFallbackReturned ==
    /\ fc.pc = "fallback"
    /\ rt.pc = "returned"
    /\ fl' = [fl EXCEPT !.last_successful_llm = AfterFallback(fl)]
    /\ fc' = [fc EXCEPT !.pc = "returned", !.result = rt.result]
    /\ rt' = IdleRun
    /\ UNCHANGED <<now, cb, last, openedAt, avail, rs, lastOk, fa, th>>

\* lines 180-184: the fallback's retry loop raised, and so does _call
FbFallbackRaised ==
    /\ fc.pc = "fallback"
    /\ rt.pc = "raised"
    /\ fc' = [fc EXCEPT !.pc = "raised", !.exc = rt.exc]
    /\ rt' = IdleRun
    /\ UNCHANGED <<now, cb, last, openedAt, avail, rs, fl, lastOk, fa, th>>

\* lines 203-212: fallback_llm.temperature = value
FbSetTemperature ==
    /\ FbQuiet
    /\ \E value \in Temperatures :
        LET r == SetTemperature(fl, value)
        IN  /\ fl' = r.fl
            /\ fc' = [IdleCall EXCEPT !.op = "set_temperature", !.arg = value,
                                      !.pc = IF r.raised THEN "raised" ELSE "returned",
                                      !.exc = IF r.raised THEN "AttributeError" ELSE "None",
                                      !.invokes = fc.invokes]
    /\ UNCHANGED <<now, cb, last, openedAt, avail, rs, rt, lastOk, fa, th>>

(***************************************************************************)
(* llm_factory.py: LLMFactory                                              *)
(***************************************************************************)
NoTemperature == -1     \* temperature = None

\* lines 19-22: the members of LLMType, and what else create_llm is handed
LLMTypes == {"LOCAL_FAST", "LOCAL_ACCURATE", "CLOUD_FAST", "CLOUD_ACCURATE"}
LLMTypeArgs == LLMTypes \cup {"invalid_type"}

\* arguments of the factory's methods
TaskTypes ==
    {"diagnosis", "treatment_planning", "summarization", "extraction",
     "general", "any_task"}
TemperatureArgs == {NoTemperature, 0, 3, 9}
ProviderArgs == {"openai", "OpenAI", "ollama", "OLLAMA", "azure", "Azure"}
ModelArgs == {"gpt-4", "llama3"}

\* lines 36-41: _llm_type_map
LLMTypeMap(llm_type) ==
    CASE llm_type = "LOCAL_FAST" ->
            [provider |-> "ollama", model |-> "llama3", temperature |-> 7]
      [] llm_type = "LOCAL_ACCURATE" ->
            [provider |-> "ollama", model |-> "llama3:70b", temperature |-> 5]
      [] llm_type = "CLOUD_FAST" ->
            [provider |-> "openai", model |-> "gpt-3.5-turbo", temperature |-> 7]
      [] llm_type = "CLOUD_ACCURATE" ->
            [provider |-> "openai", model |-> "gpt-4", temperature |-> 5]

\* lines 44-47: the keys of _provider_map
ProviderMap == {"openai", "ollama"}

\* str.lower() on the provider names
Lower(provider) ==
    CASE provider = "OpenAI" -> "openai"
      [] provider = "OLLAMA" -> "ollama"
      [] provider = "Azure" -> "azure"
      [] OTHER -> provider

NoError == [kind |-> "None", value |-> "None"]

\* lines 89-100: create_llm_by_provider; ok says whether the adapter's
\* constructor returns (it raises otherwise); ctor counts constructor calls
CreateLLMByProvider(provider, model, temperature, ok) ==
    LET p == Lower(provider)
    IN  IF p \notin ProviderMap
        THEN [status |-> "raised", llm |-> NoAdapter, ctor |-> 0,
              err |-> [kind |-> "Unsupported LLM provider", value |-> p]]
        ELSE IF ok
        THEN [status |-> "ok", llm |-> Adapter(p, model, temperature), ctor |-> 1,
              err |-> NoError]
        ELSE [status |-> "raised", llm |-> NoAdapter, ctor |-> 1,
              err |-> [kind |-> "constructor", value |-> model]]

\* lines 61-74 with an unknown type built as CLOUD_FAST
CreateLLM_DefaultsUnknown(llm_type, temperature, ok) ==
    LET config == LLMTypeMap(IF llm_type \in LLMTypes THEN llm_type ELSE "CLOUD_FAST")
        temp == IF temperature # NoTemperature THEN temperature ELSE config.temperature
    IN  CreateLLMByProvider(config.provider, config.model, temp, ok)

\* lines 61-74: create_llm
CreateLLM(llm_type, temperature, ok) ==
    IF llm_type \notin LLMTypes
    THEN [status |-> "raised", llm |-> NoAdapter, ctor |-> 0,
          err |-> [kind |-> "Unsupported LLM type", value |-> llm_type]]
    ELSE LET config == LLMTypeMap(llm_type)
             temp == IF temperature # NoTemperature THEN temperature
                     ELSE config.temperature
         IN  CreateLLMByProvider(config.provider, config.model, temp, ok)

\* the tier the unit tests expect get_llm_for_task to ask for
PreferredType_TestPolicy(task_type, sensitive_data) ==
    IF sensitive_data THEN "LOCAL_ACCURATE"
    ELSE IF task_type \in {"summarization", "extraction"} THEN "CLOUD_ACCURATE"
    ELSE "CLOUD_FAST"

\* lines 115-121: the tier get_llm_for_task asks for first
PreferredType(task_type, sensitive_data) ==
    IF sensitive_data \/ task_type \in {"diagnosis", "treatment_planning"}
    THEN "CLOUD_ACCURATE"
    ELSE IF task_type \in {"summarization", "extraction"}
    THEN "CLOUD_FAST"
    ELSE "CLOUD_FAST"

\* line 131 with the local tiers swapped
FallbackType_Swapped(llm_type) ==
    IF llm_type = "CLOUD_FAST" THEN "LOCAL_ACCURATE" ELSE "LOCAL_FAST"

\* line 131: the local tier paired with a cloud tier
FallbackType(llm_type) ==
    IF llm_type = "CLOUD_FAST" THEN "LOCAL_FAST" ELSE "LOCAL_ACCURATE"

\* one creation call made by get_llm_for_task: what it was asked and what came of it
Attempt(via, llm_type, temperature, r) ==
    [via |-> via, llm_type |-> llm_type, temperature |-> temperature,
     status |-> r.status, llm |-> r.llm, err |-> r.err, ctor |-> r.ctor]

\* what get_llm_for_task gives its caller: the outcome of its last creation call
Outcome(attempts) ==
    [status |-> attempts[Len(attempts)].status,
     llm |-> attempts[Len(attempts)].llm,
     err |-> attempts[Len(attempts)].err,
     attempts |-> attempts]

\* lines 115-141: get_llm_for_task; oks[i] says whether the constructor call of
\* the i-th creation call returns
GetLLMForTask(task_type, sensitive_data, temperature, oks) ==
    LET llm_type == PreferredType(task_type, sensitive_data)
        a1 == Attempt("create_llm", llm_type, temperature,
                      CreateLLM(llm_type, temperature, oks[1]))
    IN  IF a1.status = "ok"
        THEN Outcome(<<a1>>)
        ELSE IF llm_type \in {"CLOUD_FAST", "CLOUD_ACCURATE"}
        THEN LET fallback_type == FallbackType(llm_type)
                 a2 == Attempt("create_llm", fallback_type, temperature,
                               CreateLLM(fallback_type, temperature, oks[2]))
             IN  Outcome(<<a1, a2>>)
        ELSE LET temp == IF temperature \in {NoTemperature, 0} THEN 7 ELSE temperature
                 a3 == Attempt("create_llm_by_provider", "None", temp,
                               CreateLLMByProvider("openai", "gpt-3.5-turbo", temp, oks[2]))
             IN  Outcome(<<a1, a3>>)

\* no factory method has been called yet
NoFactoryCall == [op |-> "none", arg |-> <<>>, res |-> <<>>]

\* LLMFactory.create_llm(llm_type, temperature)
CreateLLMAct ==
    /\ \E llm_type \in LLMTypeArgs, temperature \in TemperatureArgs, ok \in BOOLEAN :
        fa' = [op |-> "create_llm",
               arg |-> [llm_type |-> llm_type, temperature |-> temperature],
               res |-> CreateLLM(llm_type, temperature, ok)]
    /\ UNCHANGED <<now, cb, last, openedAt, avail, rs, rt, fl, fc, lastOk, th>>

\* LLMFactory.create_llm_by_provider(provider, model, temperature)
CreateLLMByProviderAct ==
    /\ \E provider \in ProviderArgs, model \in ModelArgs,
          temperature \in TemperatureArgs \ {NoTemperature}, ok \in BOOLEAN :
        fa' = [op |-> "create_llm_by_provider",
               arg |-> [provider |-> provider, model |-> model,
                        temperature |-> temperature],
               res |-> CreateLLMByProvider(provider, model, temperature, ok)]
    /\ UNCHANGED <<now, cb, last, openedAt, avail, rs, rt, fl, fc, lastOk, th>>

\* LLMFactory.get_llm_for_task(task_type, sensitive_data, temperature)
GetLLMForTaskAct ==
    /\ \E task_type \in TaskTypes, sensitive_data \in BOOLEAN,
          temperature \in TemperatureArgs, oks \in [1..2 -> BOOLEAN] :
        fa' = [op |-> "get_llm_for_task",
               arg |-> [task_type |-> task_type, sensitive_data |-> sensitive_data,
                        temperature |-> temperature],
               res |-> GetLLMForTask(task_type, sensitive_data, temperature, oks)]
    /\ UNCHANGED <<now, cb, last, openedAt, avail, rs, rt, fl, fc, lastOk, th>>

(***************************************************************************)
(* Specifications                                                          *)
(***************************************************************************)
\* the circuit breaker under every sequence of its public operations
Init ==
    /\ now = 0
    /\ cb \in {NewBreaker(c) : c \in Configs}
    /\ last = NoOp
    /\ openedAt = NoTime
    /\ avail = <<>>
    /\ rs = DefaultStrategy
    /\ rt = IdleRun
    /\ fl = NewFallbackLLM(Adapter("openai", "gpt-4", 7), NoAdapter)
    /\ fc = IdleCall
    /\ lastOk = "None"
    /\ fa = NoFactoryCall
    /\ th = IdleCallers

Next ==
    \/ Tick
    \/ IsAvailableAct(FALSE)
    \/ RecordFailureAct(FALSE)
    \/ RecordSuccessAct
    \/ ResetAct
    \/ IsOpenAct

Spec == Init /\ [][Next]_vars

\* the same, with the history variables recorded
NextHist ==
    \/ Tick
    \/ IsAvailableAct(TRUE)
    \/ RecordFailureAct(TRUE)
    \/ RecordSuccessAct
    \/ ResetAct
    \/ IsOpenAct

SpecHist == Init /\ [][NextHist]_vars

\* the circuit breaker under is_available() calls only, with the history recorded
NextAvail ==
    \/ Tick
    \/ IsAvailableAct(TRUE)

SpecAvail == Init /\ [][NextAvail]_vars

\* the circuit breaker in use for ever: time keeps advancing and
\* is_available() keeps being called; is_open() may be called, record_failure(),
\* record_success() and reset() are left to is_available()
NextLive ==
    \/ TickOn
    \/ IsAvailableOn
    \/ IsOpenAct

SpecLive ==
    /\ Init
    /\ [][NextLive]_vars
    /\ WF_vars(TickOn)
    /\ WF_vars(IsAvailableOn)

\* two concurrent callers of is_available(), on breakers that close at the
\* first success
RaceConfigs == {c \in Configs : c.success_threshold = 1}

InitRace ==
    /\ now = 0
    /\ cb \in {NewBreaker(c) : c \in RaceConfigs}
    /\ last = NoOp
    /\ openedAt = NoTime
    /\ avail = <<>>
    /\ rs = DefaultStrategy
    /\ rt = IdleRun
    /\ fl = NewFallbackLLM(Adapter("openai", "gpt-4", 7), NoAdapter)
    /\ fc = IdleCall
    /\ lastOk = "None"
    /\ fa = NoFactoryCall
    /\ th = IdleCallers

NextRace ==
    \/ Tick
    \/ \E i \in Callers : RaceEnter(i)
    \/ \E i \in Callers : RaceCheck(i)
    \/ \E i \in Callers : RaceRecord(i)

SpecRace == InitRace /\ [][NextRace]_vars

\* one run of execute_with_retry, for every strategy and every operation
InitRetry ==
    /\ now = 0
    /\ cb = NewBreaker(DefaultConfig)
    /\ last = NoOp
    /\ openedAt = NoTime
    /\ avail = <<>>
    /\ rs \in Strategies
    /\ rt = IdleRun
    /\ fl = NewFallbackLLM(Adapter("openai", "gpt-4", 7), NoAdapter)
    /\ fc = IdleCall
    /\ lastOk = "None"
    /\ fa = NoFactoryCall
    /\ th = IdleCallers

NextRetry ==
    \/ RetryStart
    \/ RetryCallOk
    \/ RetryCallErr

SpecRetry == InitRetry /\ [][NextRetry]_vars

\* a FallbackLLM under a sequence of invoke() calls and temperature settings,
\* for every pair of adapters and every retry budget
InitFallback ==
    /\ now = 0
    /\ cb = NewBreaker(DefaultConfig)
    /\ last = NoOp
    /\ openedAt = NoTime
    /\ avail = <<>>
    /\ rs \in FbStrategies
    /\ rt = IdleRun
    /\ fl \in {NewFallbackLLM(p, f) : p \in PrimaryAdapters, f \in FallbackAdapters}
    /\ fc = IdleCall
    /\ lastOk = "None"
    /\ fa = NoFactoryCall
    /\ th = IdleCallers

NextFallback ==
    \/ FbInvoke
    \/ FbPrimaryOk
    \/ FbPrimaryErr
    \/ FbPrimaryReturned
    \/ FbPrimaryRaised
    \/ FbFallbackOk
    \/ FbFallbackErr
    \/ FbFallbackReturned
    \/ FbFallbackRaised
    \/ FbSetTemperature

SpecFallback == InitFallback /\ [][NextFallback]_vars

\* the same, where a running invoke goes on: every adapter call returns or
\* raises and every sleep ends
SpecFallbackFair == SpecFallback /\ WF_vars(NextFallback)

\* the factory's class methods, called with every argument and with
\* constructors that return or raise
InitFactory ==
    /\ now = 0
    /\ cb = NewBreaker(DefaultConfig)
    /\ last = NoOp
    /\ openedAt = NoTime
    /\ avail = <<>>
    /\ rs = DefaultStrategy
    /\ rt = IdleRun
    /\ fl = NewFallbackLLM(Adapter("openai", "gpt-4", 7), NoAdapter)
    /\ fc = IdleCall
    /\ lastOk = "None"
    /\ fa = NoFactoryCall
    /\ th = IdleCallers

NextFactory ==
    \/ CreateLLMAct
    \/ CreateLLMByProviderAct
    \/ GetLLMForTaskAct

SpecFactory == InitFactory /\ [][NextFactory]_vars

(***************************************************************************)
(* Properties                                                              *)
(***************************************************************************)
\* the step is an is_available() call
AvailStep == last'.op = "is_available"

\* the step records a failure: record_failure() itself, or an is_available()
\* probe whose check function returned False or raised
FailureStep ==
    \/ last'.op = "record_failure"
    \/ last'.op = "is_available" /\ last'.outcome \in {"false", "raise"}

\* C1: once the breaker has entered OPEN, every is_available() call made less
\* than config.reset_timeout after that entry returns False, whatever other
\* operations (reset() excluded) ran in between.
C1_BlockedAfterOpening ==
    (/\ last.op = "is_available"
     /\ openedAt # NoTime
     /\ openedAt <= last.t
     /\ last.t - openedAt < cb.config.reset_timeout)
    => last.ret = FALSE

\* C2: an is_available() call that starts while the state is OPEN and less than
\* reset_timeout has elapsed since the last recorded failure never returns True.
C2_NeverAvailableWhileOpen ==
    [][(/\ AvailStep
        /\ cb.state = "open"
        /\ cb.last_failure_time # NoTime
        /\ now - cb.last_failure_time < cb.config.reset_timeout)
       => last'.ret = FALSE]_vars

\* C3: a failure recorded while CLOSED adds one to the failure counter and
\* leaves the breaker OPEN exactly when the counter has reached
\* failure_threshold (so threshold - f failures open it, and fewer never do).
C3_ThresholdOpens ==
    [][(FailureStep /\ last'.mid_state = "closed")
       => /\ cb'.failures = cb.failures + 1
          /\ cb'.state \in {"closed", "open"}
          /\ cb'.state = "open" <=> cb'.failures >= cb.config.failure_threshold]_vars

\* C3 witness: the second of two failures opened a CLOSED breaker of threshold 2
C3_Witness ==
    /\ last.op = "record_failure"
    /\ last.mid_state = "closed"
    /\ cb.config.failure_threshold = 2
    /\ cb.failures = 2
    /\ cb.state = "open"

\* C4: one failure recorded in HALF_OPEN (record_failure(), or a probe that
\* returns False or raises) leaves the breaker OPEN, whatever the counter.
C4_HalfOpenSingleStrike ==
    [][(FailureStep /\ last'.mid_state = "half_open") => cb'.state = "open"]_vars

\* C4 witness: a failed probe in HALF_OPEN reopened the circuit with the failure
\* counter still below failure_threshold
C4_Witness ==
    /\ last.op = "is_available"
    /\ last.outcome = "false"
    /\ last.mid_state = "half_open"
    /\ cb.failures < cb.config.failure_threshold
    /\ cb.state = "open"

\* C5 (as claimed): every is_available() call that starts in OPEN at least
\* reset_timeout after the last failure moves the breaker to HALF_OPEN and sets
\* the failure-time marker to the time of the call.
C5_CallAfterResetTimeout ==
    [][(/\ AvailStep
        /\ cb.state = "open"
        /\ cb.last_failure_time # NoTime
        /\ now - cb.last_failure_time >= cb.config.reset_timeout)
       => /\ last'.mid_state = "half_open"
          /\ last'.mid_lft = now]_vars

\* C5 (amended): a call that starts in OPEN at least reset_timeout after the
\* last failure and is not answered from a cache entry younger than the TTL
\* moves the breaker to HALF_OPEN and sets the failure-time marker to the time
\* of the call; with half_open_timeout > 0 the call ends there, returning False.
C5_UncachedCallAfterResetTimeout ==
    [][(/\ AvailStep
        /\ cb.state = "open"
        /\ cb.last_failure_time # NoTime
        /\ now - cb.last_failure_time >= cb.config.reset_timeout
        /\ (cb.cache = <<>> \/ now - cb.cache[2] >= CACHE_TIMEOUT))
       => /\ last'.mid_state = "half_open"
          /\ last'.mid_lft = now
          /\ cb.config.half_open_timeout > 0
                => /\ ~last'.checked
                   /\ last'.ret = FALSE
                   /\ cb'.state = "half_open"
                   /\ cb'.last_failure_time = now]_vars

\* C5 witness: with a reset_timeout shorter than the cache TTL, a call has just
\* moved the breaker to HALF_OPEN and stamped the marker with its own time
C5_Witness ==
    /\ last.op = "is_available"
    /\ cb.config.reset_timeout < CACHE_TIMEOUT
    /\ ~last.checked
    /\ last.mid_state = "half_open"
    /\ last.mid_lft = last.t
    /\ cb.state = "half_open"
    /\ cb.last_failure_time = now
    /\ now >= cb.config.reset_timeout

\* C6: two is_available() calls less than the cache TTL apart, with no reset()
\* between them, return the same boolean and execute the check function at
\* most once between them.
C6_CacheIdempotence ==
    [][(/\ AvailStep
        /\ avail # <<>>
        /\ now - avail[1] < CACHE_TIMEOUT)
       => /\ last'.ret = avail[2]
          /\ ~(avail[3] /\ last'.checked)]_vars

\* C7: an exception of the check function does not leave is_available(): the
\* call returns False, the failure counter is incremented, the success counter
\* is 0, the last-failure time is that of the recording, a CLOSED breaker opens
\* at the threshold and a HALF_OPEN one opens.
C7_CheckExceptionIsFailure ==
    [][(AvailStep /\ last'.outcome = "raise")
       => /\ ~last'.raised
          /\ last'.ret = FALSE
          /\ cb'.failures = cb.failures + 1
          /\ cb'.success_count = 0
          /\ cb'.last_failure_time = now'
          /\ last'.mid_state = "closed"
                => (cb'.state = "open" <=> cb'.failures >= cb.config.failure_threshold)
          /\ last'.mid_state = "half_open" => cb'.state = "open"]_vars

\* C7 witness: a probe in HALF_OPEN raised, the call returned False and the
\* circuit is OPEN again
C7_Witness ==
    /\ last.op = "is_available"
    /\ last.outcome = "raise"
    /\ last.mid_state = "half_open"
    /\ last.ret = FALSE
    /\ cb.state = "open"
    /\ cb.last_failure_time = now

Last(q) == q[Len(q)]

\* C8: for max_retries >= 0 the operation is called until its first success or
\* until max_retries + 1 calls were made: no call follows a success, the run
\* returns the value of the successful call, and it raises only after
\* max_retries + 1 failed calls, with the exception of the last one.
C8_RetryAttempts ==
    rs.max_retries >= 0 =>
        /\ Len(rt.calls) <= rs.max_retries + 1
        /\ \A i \in 1..(Len(rt.calls) - 1) : ~rt.calls[i].ok
        /\ rt.pc = "call" => /\ Len(rt.calls) <= rs.max_retries
                             /\ \A i \in 1..Len(rt.calls) : ~rt.calls[i].ok
        /\ rt.pc = "returned" => /\ rt.calls # <<>>
                                 /\ Last(rt.calls).ok
                                 /\ rt.result = Last(rt.calls).val
        /\ rt.pc = "raised" => /\ Len(rt.calls) = rs.max_retries + 1
                               /\ ~Last(rt.calls).ok
                               /\ rt.exc = Last(rt.calls).val

\* C8 witness: with max_retries = 2 the operation failed three times, the last
\* time with another exception than before, and that one was raised
C8_Witness ==
    /\ rs.max_retries = 2
    /\ rt.pc = "raised"
    /\ Len(rt.calls) = 3
    /\ rt.calls[2].val = "a"
    /\ rt.exc = "b"

\* C9: every delay slept between two attempts is at most max_delay.
C9_DelayBounded ==
    \A i \in 1..Len(rt.sleeps) : rt.sleeps[i] <= rs.max_delay

RECURSIVE Pow(_, _)
Pow(b, n) == IF n = 0 THEN 1 ELSE b * Pow(b, n - 1)

\* C10: the delay slept before attempt k+1 is
\* min(initial_delay * backoff_factor^(k-1), max_delay).
C10_DelayClosedForm ==
    \A k \in 1..Len(rt.sleeps) :
        rt.sleeps[k] = Min(rs.initial_delay * Pow(rs.backoff_factor, k - 1), rs.max_delay)


(***************************************************************************)
(* Properties of FallbackLLM                                               *)
(***************************************************************************)
\* the adapter calls of the running (or last) invoke, by adapter
CallsOf(llm) == {i \in DOMAIN fc.log : fc.log[i].llm = llm}
OkCallsOf(llm) == {i \in CallsOf(llm) : fc.log[i].ok}

\* the invoke has come back to its caller
Finished == fc.op = "invoke" /\ fc.pc \in {"returned", "raised"}

\* C11: within one invoke every call of the primary adapter comes before every
\* call of the secondary; the secondary is called only after the primary has
\* failed max_retries + 1 times; if a primary attempt succeeds the invoke
\* returns the primary's output and the secondary is never called; if the
\* primary is exhausted and a secondary attempt succeeds the invoke returns
\* the secondary's output.
C11_PrimaryThenSecondary ==
    fc.op = "invoke" =>
        /\ \A i \in CallsOf("primary"), j \in CallsOf("fallback") : i < j
        /\ CallsOf("fallback") # {} =>
                /\ Cardinality(CallsOf("primary")) = rs.max_retries + 1
                /\ OkCallsOf("primary") = {}
        /\ \A i \in OkCallsOf("primary") :
                /\ CallsOf("fallback") = {}
                /\ i = Len(fc.log)
                /\ Finished => fc.pc = "returned" /\ fc.result = fc.log[i].val
        /\ \A j \in OkCallsOf("fallback") :
                /\ j = Len(fc.log)
                /\ Finished => fc.pc = "returned" /\ fc.result = fc.log[j].val

\* an invoke whose primary failed both attempts of its budget and whose secondary
\* then returned its output
C11_Witness ==
    /\ Finished
    /\ fc.pc = "returned"
    /\ rs.max_retries = 1
    /\ Cardinality(CallsOf("primary")) = 2
    /\ OkCallsOf("fallback") # {}
    /\ fc.result \in FallbackValues

\* both adapters were called max_retries + 1 times and every call failed
BothExhausted ==
    /\ Cardinality(CallsOf("primary")) = rs.max_retries + 1
    /\ Cardinality(CallsOf("fallback")) = rs.max_retries + 1
    /\ OkCallsOf("primary") = {}
    /\ OkCallsOf("fallback") = {}

\* C12: when the primary and the secondary both exhaust their retry budgets,
\* the exception that reaches the caller of invoke is the one raised by the
\* secondary's last attempt, never the primary's.
C12_SecondaryExceptionPropagates ==
    (Finished /\ BothExhausted) =>
        /\ fc.pc = "raised"
        /\ fc.log[Len(fc.log)].llm = "fallback"
        /\ fc.exc = fc.log[Len(fc.log)].val
        /\ fc.exc \notin PrimaryValues

\* both exhausted, and the secondary's last exception is not its first one
C12_Witness ==
    /\ Finished
    /\ BothExhausted
    /\ rs.max_retries = 1
    /\ fc.log[3].val = "fallback:a"
    /\ fc.log[4].val = "fallback:b"
    /\ fc.exc = "fallback:b"

\* C13: a FallbackLLM built with only a primary adapter whose primary fails
\* all max_retries + 1 attempts raises the 'No fallback LLM available'
\* ValueError, not the primary's exception.
C13_NoFallbackAvailable ==
    (/\ Finished
     /\ fl.fallback = NoAdapter
     /\ Cardinality(CallsOf("primary")) = rs.max_retries + 1
     /\ OkCallsOf("primary") = {}) =>
        /\ fc.pc = "raised"
        /\ fc.exc = NoFallbackError
        /\ fc.exc \notin PrimaryValues
        /\ CallsOf("fallback") = {}

\* a primary-only FallbackLLM whose primary failed three times
C13_Witness ==
    /\ Finished
    /\ fl.fallback = NoAdapter
    /\ rs.max_retries = 2
    /\ Len(fc.log) = 3
    /\ OkCallsOf("primary") = {}
    /\ fc.exc = NoFallbackError

\* an invoke in which every attempt failed left last_successful_llm as it was
FailedInvokeKeeps ==
    (Finished /\ OkCallsOf("primary") = {} /\ OkCallsOf("fallback") = {}) =>
        fl.last_successful_llm = fc.before

\* C14 as stated: after any sequence of invokes, also one without a
\* successful call yet, last_successful_llm is the adapter whose call returned
\* successfully most recently, and an invoke in which every attempt fails
\* leaves it unchanged.
C14_LastSuccessful ==
    (FbQuiet /\ fc.invokes >= 1) =>
        /\ fl.last_successful_llm = lastOk
        /\ FailedInvokeKeeps

\* C14: after any sequence of invokes last_successful_llm is the adapter
\* whose call returned successfully most recently, and the primary adapter as
\* long as no call has returned successfully; an invoke in which every attempt
\* fails leaves it unchanged.
C14_LastSuccessfulOrPrimary ==
    FbQuiet =>
        /\ fl.last_successful_llm = (IF lastOk = "None" THEN "primary" ELSE lastOk)
        /\ FailedInvokeKeeps

\* the secondary answered the first invoke, and the second invoke failed
\* throughout
C14_Witness ==
    /\ Finished
    /\ fc.invokes = 2
    /\ fc.pc = "raised"
    /\ fc.before = "fallback"
    /\ lastOk = "fallback"
    /\ fl.last_successful_llm = "fallback"

\* C20: after FallbackLLM.temperature is set to v, the primary's temperature,
\* the secondary's (when there is one) and FallbackLLM.temperature all read v;
\* without a secondary the setter updates the primary and does not fail.
C20_TemperatureCascade ==
    fc.op = "set_temperature" =>
        /\ fc.pc = "returned"
        /\ fl.primary.temperature = fc.arg
        /\ fl.fallback # NoAdapter => fl.fallback.temperature = fc.arg
        /\ Temperature(fl) = fc.arg

\* the setter ran on a FallbackLLM with a secondary, after an invoke
C20_Witness ==
    /\ fc.op = "set_temperature"
    /\ fc.invokes >= 1
    /\ fc.arg = 3
    /\ fl.fallback # NoAdapter
    /\ fl.fallback.temperature = 3
    /\ fl.primary.temperature = 3

(***************************************************************************)
(* Properties of LLMFactory                                                *)
(***************************************************************************)
\* the last call was get_llm_for_task
TaskCall == fa.op = "get_llm_for_task"

\* the creation calls get_llm_for_task made for a tier
AttemptsOf(llm_type) ==
    {i \in DOMAIN fa.res.attempts : fa.res.attempts[i].llm_type = llm_type}

C16_TestedPolicy ==
    TaskCall =>
        /\ fa.res.attempts[1].llm_type =
                IF fa.arg.sensitive_data THEN "LOCAL_ACCURATE"
                ELSE IF fa.arg.task_type \in {"summarization", "extraction"}
                THEN "CLOUD_ACCURATE"
                ELSE "CLOUD_FAST"
        /\ fa.arg.sensitive_data =>
                AttemptsOf("CLOUD_FAST") \cup AttemptsOf("CLOUD_ACCURATE") = {}

\* C17: when the construction of the preferred cloud tier fails,
\* get_llm_for_task makes exactly one further creation attempt, for the paired
\* local tier (CLOUD_FAST -> LOCAL_FAST, CLOUD_ACCURATE -> LOCAL_ACCURATE), with
\* the same temperature override, and returns that adapter if its construction
\* succeeds; the preferred tier is not attempted a second time.
C17_PairedLocalTier ==
    (TaskCall /\ fa.res.attempts[1].status = "raised") =>
        LET preferred == fa.res.attempts[1].llm_type
            paired == CASE preferred = "CLOUD_FAST" -> "LOCAL_FAST"
                        [] preferred = "CLOUD_ACCURATE" -> "LOCAL_ACCURATE"
                        [] OTHER -> "None"
        IN  /\ Len(fa.res.attempts) >= 2
            /\ fa.res.attempts[2].via = "create_llm"
            /\ fa.res.attempts[2].temperature = fa.arg.temperature
            /\ AttemptsOf(paired) = {2}
            /\ AttemptsOf(preferred) = {1}
            /\ fa.res.attempts[2].status = "ok" =>
                    /\ Len(fa.res.attempts) = 2
                    /\ fa.res.status = "ok"
                    /\ fa.res.llm = fa.res.attempts[2].llm
                    /\ fa.res.llm.provider = "ollama"
                    /\ fa.arg.temperature # NoTemperature =>
                            fa.res.llm.temperature = fa.arg.temperature

\* gpt-4 could not be built and the task got llama3:70b at the override
C17_Witness ==
    /\ TaskCall
    /\ fa.arg.temperature = 3
    /\ Len(fa.res.attempts) = 2
    /\ fa.res.attempts[1].llm_type = "CLOUD_ACCURATE"
    /\ fa.res.attempts[1].status = "raised"
    /\ fa.res.status = "ok"
    /\ fa.res.llm = Adapter("ollama", "llama3:70b", 3)

\* C18: when the preferred tier and its paired local tier both fail to
\* construct, get_llm_for_task attempts the last-resort openai gpt-3.5-turbo
\* adapter before any error reaches the caller, returns it if that succeeds,
\* and otherwise propagates the error of this last attempt.
C18_LastResort ==
    (/\ TaskCall
     /\ Len(fa.res.attempts) >= 2
     /\ fa.res.attempts[1].status = "raised"
     /\ fa.res.attempts[2].status = "raised") =>
        /\ Len(fa.res.attempts) = 3
        /\ fa.res.attempts[3].via = "create_llm_by_provider"
        /\ fa.res.attempts[3].status = "ok" =>
                /\ fa.res.status = "ok"
                /\ fa.res.llm.provider = "openai"
                /\ fa.res.llm.model_name = "gpt-3.5-turbo"
        /\ fa.res.attempts[3].status = "raised" =>
                /\ fa.res.status = "raised"
                /\ fa.res.err = fa.res.attempts[3].err

\* C19: create_llm with a value that is not one of the four tiers, and
\* create_llm_by_provider with a provider that is not 'openai' or 'ollama' in
\* any letter case, raise the unsupported-type / unsupported-provider error
\* naming the value, and call no adapter constructor.
C19_UnsupportedRaises ==
    /\ (/\ fa.op = "create_llm"
         /\ fa.arg.llm_type \notin
                {"LOCAL_FAST", "LOCAL_ACCURATE", "CLOUD_FAST", "CLOUD_ACCURATE"}) =>
            /\ fa.res.status = "raised"
            /\ fa.res.err = [kind |-> "Unsupported LLM type", value |-> fa.arg.llm_type]
            /\ fa.res.ctor = 0
    /\ (/\ fa.op = "create_llm_by_provider"
         /\ Lower(fa.arg.provider) \notin {"openai", "ollama"}) =>
            /\ fa.res.status = "raised"
            /\ fa.res.err = [kind |-> "Unsupported LLM provider",
                              value |-> Lower(fa.arg.provider)]
            /\ fa.res.ctor = 0

\* create_llm("invalid_type") raised and built nothing
C19_Witness ==
    /\ fa.op = "create_llm"
    /\ fa.arg.llm_type = "invalid_type"
    /\ fa.res.status = "raised"
    /\ fa.res.err.kind = "Unsupported LLM type"
    /\ fa.res.ctor = 0

(***************************************************************************)
(* Properties of FallbackLLM, continued                                    *)
(***************************************************************************)
\* C21: in every reachable state of a FallbackLLM, also after an invoke that
\* the secondary served, the provider and model_name getters return the
\* primary adapter's provider and model name.
C21_GettersReflectPrimary ==
    /\ Provider(fl) = fl.primary.provider
    /\ ModelName(fl) = fl.primary.model_name
    /\ fl.fallback # NoAdapter =>
            /\ Provider(fl) # fl.fallback.provider
            /\ ModelName(fl) # fl.fallback.model_name

\* the secondary served the last invoke and the getters still name the primary
C21_Witness ==
    /\ Finished
    /\ fc.pc = "returned"
    /\ fc.result \in FallbackValues
    /\ fl.last_successful_llm = "fallback"
    /\ Provider(fl) = "openai"
    /\ ModelName(fl) = "gpt-4"

(***************************************************************************)
(* Properties of the circuit breaker, continued                            *)
(***************************************************************************)
\* the changes of state the breaker's state machine has
Allowed(s1, s2) ==
    \/ s1 = s2
    \/ <<s1, s2>> \in {<<"closed", "open">>, <<"open", "half_open">>,
                       <<"half_open", "closed">>, <<"half_open", "open">>}

\* what a step of the breaker may do to its state
AllowedStep ==
    /\ last'.op = "is_available" =>
            /\ Allowed(cb.state, last'.mid_state)
            /\ Allowed(last'.mid_state, cb'.state)
    /\ last'.op \in {"is_open", "record_success", "record_failure"} =>
            Allowed(cb.state, cb'.state)
    /\ (last'.op = "record_success" /\ cb.state = "open") =>
            cb'.state = "open"
    /\ last'.op = "reset" =>
            /\ cb'.state = "closed"
            /\ cb'.failures = 0
            /\ cb'.success_count = 0
            /\ cb'.cache = <<>>

\* C23: the initial state is CLOSED; every change of state made by
\* is_available, is_open, record_success or record_failure is one of
\* CLOSED->OPEN, OPEN->HALF_OPEN, HALF_OPEN->CLOSED, HALF_OPEN->OPEN (the two
\* changes one is_available call can make are taken one by one);
\* record_success while OPEN does not close the circuit; only reset moves any
\* state directly to CLOSED, and it zeroes both counters and empties the cache.
C23_AllowedTransitions ==
    /\ cb.state = "closed"
    /\ [][AllowedStep]_vars

\* record_success() was called on an OPEN breaker, which is still OPEN
C23_Witness ==
    /\ last.op = "record_success"
    /\ last.mid_state = "open"
    /\ cb.state = "open"
    /\ cb.success_count = 1

\* C26: an is_available() call answered from a cache entry younger than the
\* TTL leaves state, both counters, both timestamps and the cache entry
\* unchanged and does not execute the check function; so does a call that is
\* short-circuited because the breaker is OPEN within reset_timeout.
C26_AnsweredCallsChangeNothing ==
    [][AvailStep =>
       (LET cached == cb.cache # <<>> /\ now - cb.cache[2] < CACHE_TIMEOUT
            blocked == /\ ~cached
                       /\ cb.state = "open"
                       /\ cb.last_failure_time # NoTime
                       /\ now - cb.last_failure_time < cb.config.reset_timeout
        IN  /\ (cached \/ blocked) => (cb' = cb /\ ~last'.checked)
            /\ cached => last'.ret = cb.cache[1]
            /\ blocked => ~last'.ret)]_vars

\* a call found the cache entry expired and the breaker OPEN within
\* reset_timeout, and was turned away
C26_Witness ==
    /\ last.op = "is_available"
    /\ ~last.checked
    /\ cb.state = "open"
    /\ cb.cache # <<>>
    /\ last.t - cb.cache[2] >= CACHE_TIMEOUT
    /\ last.t - cb.last_failure_time < cb.config.reset_timeout

\* C27: is_open() moves the breaker from OPEN to HALF_OPEN (returning False)
\* only when at least config.reset_timeout has passed since the last
\* failure, as is_available() does, for every configuration.
C27_IsOpenHonoursConfig ==
    [][(last'.op = "is_open" /\ cb.state = "open" /\ cb'.state = "half_open") =>
            /\ ~last'.ret
            /\ now - cb.last_failure_time >= cb.config.reset_timeout]_vars

\* C28: in every reachable state CLOSED implies that the failure counter is
\* below failure_threshold, and the counter is 0 right after every change of
\* state into CLOSED.
C28_ClosedBelowThreshold ==
    /\ cb.state = "closed" => cb.failures < cb.config.failure_threshold
    /\ (/\ cb.state = "closed"
         /\ last.op \in {"is_available", "is_open", "record_success",
                          "record_failure", "reset"}
         /\ last.mid_state # "closed") => cb.failures = 0

\* reset() has just closed an OPEN breaker
C28_Witness ==
    /\ cb.state = "closed"
    /\ last.op = "reset"
    /\ last.mid_state = "open"
    /\ cb.failures = 0
    /\ cb.config.failure_threshold = 2

\* C29: the success counter is 0 whenever HALF_OPEN is entered, so that
\* HALF_OPEN -> CLOSED takes success_threshold successes recorded since the
\* entry; this for every sequence of is_available, is_open, record_success
\* and record_failure, record_success() calls on an OPEN breaker included.
C29_HalfOpenStartsAtZero ==
    [][(/\ cb.state = "open"
        /\ \/ last'.op = "is_open" /\ cb'.state = "half_open"
           \/ last'.op = "is_available" /\ last'.mid_state = "half_open") =>
            cb.success_count = 0]_vars

\* C25: for half_open_timeout > 0 and is_available() calls only, the call that
\* moves the breaker from OPEN to HALF_OPEN returns False without executing
\* the check function, and the check function is not executed before
\* half_open_timeout has passed since that change, so that the first probe
\* after the circuit opened comes no earlier than reset_timeout +
\* half_open_timeout after the last recorded failure.
C25_ProbingDelay ==
    [][(AvailStep /\ cb.config.half_open_timeout > 0) =>
        /\ (cb.state = "open" /\ last'.mid_state = "half_open") =>
                /\ ~last'.checked
                /\ ~last'.ret
                /\ cb'.state = "half_open"
                /\ cb'.last_failure_time = now
        /\ (last'.checked /\ last'.mid_state = "half_open") =>
                /\ cb.state = "half_open"
                /\ now >= cb.last_failure_time + cb.config.half_open_timeout
                /\ now >= openedAt + cb.config.reset_timeout
                            + cb.config.half_open_timeout]_vars

\* the first probe of a HALF_OPEN breaker, reset_timeout + half_open_timeout
\* after the failure that opened the circuit
C25_Witness ==
    /\ last.op = "is_available"
    /\ last.checked
    /\ last.outcome = "true"
    /\ last.mid_state = "half_open"
    /\ cb.config.half_open_timeout = 2
    /\ openedAt # NoTime
    /\ last.t = openedAt + cb.config.reset_timeout + cb.config.half_open_timeout

\* C30: in a FallbackLLM without a secondary, once the primary has failed its
\* max_retries + 1 attempts the missing-fallback error goes through the retry
\* loop too, so that the invoke makes exactly max_retries + 1 adapter calls and
\* 2 * max_retries sleeps before the error reaches the caller; any invoke
\* makes at most 2 * (max_retries + 1) adapter calls, and every invoke ends.
C30_RetriedMissingFallback ==
    /\ [](fc.op = "invoke" =>
            /\ Len(fc.log) <= 2 * (rs.max_retries + 1)
            /\ fc.slept <= 2 * rs.max_retries
            /\ (fc.pc = "fallback" /\ rt.pc = "raised" /\ fl.fallback = NoAdapter) =>
                    /\ Len(rt.calls) = rs.max_retries + 1
                    /\ Len(rt.sleeps) = rs.max_retries
                    /\ \A i \in DOMAIN rt.calls : rt.calls[i].val = NoFallbackError
            /\ (/\ Finished
                 /\ fl.fallback = NoAdapter
                 /\ Cardinality(CallsOf("primary")) = rs.max_retries + 1
                 /\ OkCallsOf("primary") = {}) =>
                    /\ fc.pc = "raised"
                    /\ fc.exc = NoFallbackError
                    /\ Len(fc.log) = rs.max_retries + 1
                    /\ fc.slept = 2 * rs.max_retries)
    /\ (fc.pc \in {"primary", "fallback"}) ~> Finished

\* a primary-only FallbackLLM with max_retries = 2 raised the missing-fallback
\* error after three adapter calls and four sleeps
C30_Witness ==
    /\ Finished
    /\ fl.fallback = NoAdapter
    /\ rs.max_retries = 2
    /\ fc.exc = NoFallbackError
    /\ Len(fc.log) = 3
    /\ fc.slept = 4

\* the check function did not fail in the step that led here
CheckHealthy == last.outcome \notin {"false", "raise"}

NotClosed == cb.state \in {"open", "half_open"}

\* C24: no state of the breaker is terminal: when time keeps advancing,
\* is_available() keeps being called, nobody calls record_failure() from
\* outside and the check function returns True from some point on, a breaker
\* that is OPEN or HALF_OPEN reaches CLOSED and is_available() returns True.
C24_EventuallyCloses ==
    (<>[]CheckHealthy) =>
        /\ NotClosed ~> (cb.state = "closed")
        /\ NotClosed ~> (last.op = "is_available" /\ last.ret)

\* a probe of a HALF_OPEN breaker succeeded and closed the circuit
C24_Witness ==
    /\ last.op = "is_available"
    /\ last.mid_state = "half_open"
    /\ last.outcome = "true"
    /\ last.ret
    /\ cb.state = "closed"
    /\ cb.config.half_open_timeout > 0
    /\ cb.config.success_threshold = 2

(***************************************************************************)
(* Properties of concurrent callers                                        *)
(***************************************************************************)
\* both callers are out of is_available()
RoundOver == \A i \in Callers : th.pc[i] = "idle"

\* C22: two unsynchronised callers of is_available() can both get past the
\* cache and the state checks and both execute the check function, so that
\* one outage is counted as two failures. In every round of overlapping calls
\* without a success the failed checks add between 1 and their number to the
\* failure counter (a store of a stale load can lose an increment), and a
\* breaker that was CLOSED is OPEN as soon as the counter has reached the
\* threshold; the witness is the round in which the counter advances by 2.
C22_ConcurrentDoubleCount ==
    /\ \A i \in Callers : th.pc[i] # "idle" => th.checks >= 1
    /\ (th.pc[1] # "idle" /\ th.pc[2] # "idle") => th.checks >= 2
    /\ (RoundOver /\ th.succeeded = 0 /\ th.failed >= 1) =>
            /\ th.failed = th.checks
            /\ cb.failures >= th.base + 1
            /\ cb.failures <= th.base + th.failed
            /\ (th.from = "closed" /\ cb.failures >= cb.config.failure_threshold) =>
                    cb.state = "open"

\* both callers found the cache entry expired at the same instant, both
\* executed the check function, which returned False, and the one outage
\* took the counter from 0 to the threshold of 2: the circuit is OPEN
C22_Witness ==
    /\ RoundOver
    /\ th.stale
    /\ th.from = "closed"
    /\ th.base = 0
    /\ th.checks = 2
    /\ th.failed = 2
    /\ th.t[1] = th.t[2]
    /\ th.out = <<"false", "false">>
    /\ cb.config.failure_threshold = 2
    /\ cb.failures = 2
    /\ cb.state = "open"

=============================================================================
